---------------------------- MODULE Spec2Model ----------------------------
(***************************************************************************)
(* kraftver (src/main.py): one upload request through route(), which saves *)
(* the container file, checks it, and calls read_map(): header decoding,   *)
(* extract_map_file() (external extraction, trailer resolution, renaming   *)
(* by the listfile) and tileset decoding.                                  *)
(*                                                                         *)
(* Bytes and characters are integers (byte values, Unicode code points).   *)
(* A file name is a sequence of tokens, each token a backslash "\\" or a   *)
(* backslash-free fragment; a path under the work directory is a sequence  *)
(* of such names (one per directory level).  No name holds a "/".          *)
(***************************************************************************)
EXTENDS Integers, Sequences, FiniteSets, TLC

VARIABLES
    pc,               \* position in route() / read_map() / extract_map_file()
    given,            \* the (name, flags, max_players) triple the upload was built from
    mapFile,          \* bytes of the saved container file /tmp/kraftver-<id>
    fileExists,       \* /tmp/kraftver-<id> exists
    pos,              \* read offset of map_file
    byte,             \* read_map: byte
    map_name,         \* read_map: map_name (code points)
    map_flags,        \* read_map: map_flags (characters "0"/"1")
    max_player_num,   \* read_map: max_player_num
    i,                \* read_map: i of the flags loop
    dirExists,        \* /tmp/kraftver-<id>-data exists
    extracted,        \* the number of files the extractor wrote
    files,            \* files under the work directory: path -> content
    dirs,             \* subdirectories under the work directory (paths)
    archive_files,    \* extract_map_file: archive_files
    list_file,        \* extract_map_file: list_file
    number_of_files,  \* extract_map_file: number_of_files
    renames,          \* ranks the rename loop has processed, in order
    main_tileset,     \* read_map: main_tileset
    error,            \* the exception raised inside read_map, "" if none
    response          \* what route() returned, or the exception that left it

vars == <<pc, given, mapFile, fileExists, pos, byte, map_name, map_flags,
          max_player_num, i, dirExists, extracted, files, dirs, archive_files,
          list_file, number_of_files, renames, main_tileset, error, response>>

headerVars == <<pos, byte, map_name, map_flags, max_player_num, i>>
dirVars == <<dirExists, extracted, files, dirs>>
extractVars == <<archive_files, list_file, number_of_files, renames>>

Min(a, b) == IF a < b THEN a ELSE b

(***************************************************************************)
(* Bounds of the model.                                                    *)
(***************************************************************************)
MaxNameLen == 2       \* characters in a generated map name
MaxFiles == 17        \* files the extractor leaves in the work directory

Null == "null"

(***************************************************************************)
(* bytes.decode('utf-8') (strict) and str.encode('utf-8').                 *)
(***************************************************************************)
IsCont(b) == b >= 128 /\ b <= 191

\* Length of the well-formed UTF-8 sequence at the head of bs, 0 if none.
Utf8SeqLen(bs) ==
    LET b1 == bs[1]
        n == Len(bs)
    IN  IF b1 <= 127 THEN 1
        ELSE IF b1 >= 194 /\ b1 <= 223
            THEN IF n >= 2 /\ IsCont(bs[2]) THEN 2 ELSE 0
        ELSE IF b1 >= 224 /\ b1 <= 239
            THEN IF n >= 3 /\ IsCont(bs[2]) /\ IsCont(bs[3])
                    /\ (b1 = 224 => bs[2] >= 160)
                    /\ (b1 = 237 => bs[2] <= 159) THEN 3 ELSE 0
        ELSE IF b1 >= 240 /\ b1 <= 244
            THEN IF n >= 4 /\ IsCont(bs[2]) /\ IsCont(bs[3]) /\ IsCont(bs[4])
                    /\ (b1 = 240 => bs[2] >= 144)
                    /\ (b1 = 244 => bs[2] <= 143) THEN 4 ELSE 0
        ELSE 0

Utf8CodePoint(bs, n) ==
    CASE n = 1 -> bs[1]
      [] n = 2 -> (bs[1] - 192) * 64 + (bs[2] - 128)
      [] n = 3 -> (bs[1] - 224) * 4096 + (bs[2] - 128) * 64 + (bs[3] - 128)
      [] n = 4 -> (bs[1] - 240) * 262144 + (bs[2] - 128) * 4096
                    + (bs[3] - 128) * 64 + (bs[4] - 128)

\* [ok |-> whether bs decodes, text |-> its code points]
RECURSIVE Utf8Decode(_)
Utf8Decode(bs) ==
    IF bs = <<>> THEN [ok |-> TRUE, text |-> <<>>]
    ELSE LET n == Utf8SeqLen(bs)
         IN  IF n = 0 THEN [ok |-> FALSE, text |-> <<>>]
             ELSE LET rest == Utf8Decode(SubSeq(bs, n + 1, Len(bs)))
                  IN  [ok |-> rest.ok,
                       text |-> <<Utf8CodePoint(bs, n)>> \o rest.text]

Utf8EncodeChar(c) ==
    IF c < 128 THEN <<c>>
    ELSE IF c < 2048 THEN <<192 + (c \div 64), 128 + (c % 64)>>
    ELSE IF c < 65536
        THEN <<224 + (c \div 4096), 128 + ((c \div 64) % 64), 128 + (c % 64)>>
    ELSE <<240 + (c \div 262144), 128 + ((c \div 4096) % 64),
           128 + ((c \div 64) % 64), 128 + (c % 64)>>

RECURSIVE Utf8Encode(_)
Utf8Encode(s) ==
    IF s = <<>> THEN <<>> ELSE Utf8EncodeChar(Head(s)) \o Utf8Encode(Tail(s))

(***************************************************************************)
(* The container file.                                                     *)
(***************************************************************************)
Signature == <<72, 77, 51, 87>>          \* "HM3W"
Padding == <<0, 0, 0, 0>>

RECURSIVE LittleEndianBytes(_, _)
LittleEndianBytes(v, n) ==
    IF n = 0 THEN <<>> ELSE <<v % 256>> \o LittleEndianBytes(v \div 256, n - 1)

\* The header of section 6: 8 prefix bytes, UTF-8 name, NUL, flags, max players.
BuildHeader(t) ==
    Signature \o Padding \o Utf8Encode(t.name) \o <<0>> \o t.flags
        \o LittleEndianBytes(t.max_players, 4)

\* map_file.read(n) at offset p
Read(f, p, n) == SubSeq(f, p + 1, Min(p + n, Len(f)))

\* bin(byte)[2:].rjust(8, '0')
Pow2(k) == CASE k = 0 -> 1 [] k = 1 -> 2 [] k = 2 -> 4 [] k = 3 -> 8
             [] k = 4 -> 16 [] k = 5 -> 32 [] k = 6 -> 64 [] k = 7 -> 128
Bin8(b) == [k \in 1..8 |-> IF (b \div Pow2(8 - k)) % 2 = 1 THEN "1" ELSE "0"]

\* int.from_bytes(bs, byteorder='little')
RECURSIVE FromBytesLittle(_)
FromBytesLittle(bs) ==
    IF bs = <<>> THEN 0 ELSE Head(bs) + 256 * FromBytesLittle(Tail(bs))

\* valid_map(file_name)
ValidMap(f) ==
    LET d == Utf8Decode(Read(f, 0, 4))
    IN  d.ok /\ d.text = Signature

(***************************************************************************)
(* read_map(), lines 25-51: the header.  A failure inside read_map leaves  *)
(* it as an exception, which route() catches at line 335 (pc = "except").  *)
(***************************************************************************)
Raise(e) ==
    /\ error' = e
    /\ pc' = "except"

\* lines 27-30: seek(8) and the first read(1)
HeaderSeek ==
    /\ pc = "read_map"
    /\ byte' = Read(mapFile, 8, 1)
    /\ pos' = 8 + Len(byte')
    /\ map_name' = <<>>
    /\ map_flags' = <<>>
    /\ pc' = "name_loop"
    /\ UNCHANGED <<given, mapFile, fileExists, max_player_num, i, dirVars,
                   extractVars, main_tileset, error, response>>

\* lines 31-38: the loop test and one iteration of the name loop
NameLoop ==
    /\ pc = "name_loop"
    /\ IF byte = <<0>>
       THEN /\ pc' = "flags_loop"
            /\ i' = 0
            /\ UNCHANGED <<pos, byte, map_name, error>>
       ELSE LET d1 == Utf8Decode(byte)
                more == Read(mapFile, pos, 1)
                d2 == Utf8Decode(byte \o more)
                text == IF d1.ok THEN d1.text ELSE d2.text
                p2 == IF d1.ok THEN pos ELSE pos + Len(more)
            IN  IF d1.ok \/ d2.ok
                THEN /\ map_name' = map_name \o text
                     /\ byte' = Read(mapFile, p2, 1)
                     /\ pos' = p2 + Len(byte')
                     /\ UNCHANGED <<pc, i, error>>
                ELSE /\ Raise("UnicodeDecodeError")
                     /\ byte' = byte \o more
                     /\ pos' = p2
                     /\ UNCHANGED <<map_name, i>>
    /\ UNCHANGED <<given, mapFile, fileExists, map_flags, max_player_num,
                   dirVars, extractVars, main_tileset, response>>

\* lines 42-47: one iteration of the flags loop
FlagsLoop ==
    /\ pc = "flags_loop"
    /\ LET b == Read(mapFile, pos, 1)
       IN  IF b = <<>>
           THEN /\ Raise("TypeError: ord() expected a character")
                /\ byte' = b
                /\ UNCHANGED <<pos, map_flags, i>>
           ELSE /\ byte' = Bin8(b[1])
                /\ pos' = pos + 1
                /\ map_flags' = map_flags \o Bin8(b[1])
                /\ i' = i + 1
                /\ pc' = IF i + 1 < 4 THEN "flags_loop" ELSE "max_players"
                /\ UNCHANGED error
    /\ UNCHANGED <<given, mapFile, fileExists, map_name, max_player_num,
                   dirVars, extractVars, main_tileset, response>>

\* lines 50-51
ReadMaxPlayers ==
    /\ pc = "max_players"
    /\ LET b == Read(mapFile, pos, 4)
       IN  /\ max_player_num' = FromBytesLittle(b)
           /\ pos' = pos + Len(b)
    /\ pc' = "extract"
    /\ UNCHANGED <<given, mapFile, fileExists, byte, map_name, map_flags, i,
                   dirVars, extractVars, main_tileset, error, response>>

HeaderNext == HeaderSeek \/ NameLoop \/ FlagsLoop \/ ReadMaxPlayers

(***************************************************************************)
(* The work directory.  files maps a path to the content of the file there *)
(* and dirs is the set of subdirectories; the work directory itself is the *)
(* empty path.  A content is what the program can read of a file: the text *)
(* view (whether it decodes, its lines, whether the last line ends with a  *)
(* newline) and the leading bytes; id is the rank of the extracted entry.   *)
(***************************************************************************)
Content(id, text, lines, eofnl, bytes) == <<id, text, lines, eofnl, bytes>>
IdOf(c) == c[1]
IsText(c) == c[2]
LinesOf(c) == c[3]
EndsWithNewline(c) == c[4]
BytesOf(c) == c[5]
WithId(c, k) == Content(k, IsText(c), LinesOf(c), EndsWithNewline(c), BytesOf(c))

Last(s) == s[Len(s)]
Front(s) == SubSeq(s, 1, Len(s) - 1)

IsDir(d, p) == p = <<>> \/ p \in d
Exists(f, d, p) == p \in DOMAIN f \/ IsDir(d, p)

Put(f, src, dst) ==
    [q \in (DOMAIN f \ {src}) \cup {dst} |-> IF q = dst THEN f[src] ELSE f[q]]

\* os.rename(src, dst) of a file: [files, err]
OsRename(f, d, src, dst) ==
    IF src \notin DOMAIN f THEN [files |-> f, err |-> "FileNotFoundError"]
    ELSE IF dst = <<>> THEN [files |-> f, err |-> "NotADirectoryError"]
    ELSE IF dst \in d THEN [files |-> f, err |-> "IsADirectoryError"]
    ELSE IF ~IsDir(d, Front(dst)) THEN [files |-> f, err |-> "FileNotFoundError"]
    ELSE [files |-> Put(f, src, dst), err |-> ""]

Prefixes(p) == {SubSeq(p, 1, k) : k \in 1..Len(p)}

\* os.makedirs(p, exist_ok=True): [dirs, err]
OsMakedirs(f, d, p) ==
    IF p \in DOMAIN f THEN [dirs |-> d, err |-> "FileExistsError"]
    ELSE IF Prefixes(p) \cap DOMAIN f # {}
        THEN [dirs |-> d, err |-> "NotADirectoryError"]
    ELSE [dirs |-> d \cup Prefixes(p), err |-> ""]

\* shutil.move(src, dst): into dst when dst is a directory
ShutilMove(f, d, src, dst) ==
    IF IsDir(d, dst)
    THEN LET real_dst == dst \o <<Last(src)>>
         IN  IF Exists(f, d, real_dst)
             THEN [files |-> f, err |-> "shutil.Error: Destination path already exists"]
             ELSE OsRename(f, d, src, real_dst)
    ELSE OsRename(f, d, src, dst)

\* line.split('\\'): the backslash-free parts of a name, in order
RECURSIVE Split(_)
Split(line) ==
    IF \A k \in 1..Len(line) : line[k] # "\\" THEN <<line>>
    ELSE LET k == CHOOSE j \in 1..Len(line) :
                      line[j] = "\\" /\ \A m \in 1..(j - 1) : line[m] # "\\"
         IN  <<SubSeq(line, 1, k - 1)>> \o Split(SubSeq(line, k + 1, Len(line)))

\* unpack_dir_name + '/' + s for a string of '/'-joined parts: empty parts vanish
PathOf(parts) == SelectSeq(parts, LAMBDA c : c # <<>>)

\* is_valid_list_file(list_file_path) on the content of the file
Markers == {<<"war3map.w3i">>, <<"war3map.wts">>, <<"war3map.shd">>}
IsValidListFile(c) ==
    /\ IsText(c)
    /\ \E k \in 1..Len(LinesOf(c)) :
          /\ LinesOf(c)[k] \in Markers
          /\ (k < Len(LinesOf(c)) \/ EndsWithNewline(c))

(***************************************************************************)
(* What the external extractor (mpq-extract -e) may leave in the work      *)
(* directory: n files under its own names, which sort in archive order.    *)
(* The last two hold the listfile and the attributes, in either order.     *)
(***************************************************************************)
MinFiles == 16

Name(s) == <<s>>

\* the extractor's names, in lexicographic order
ExtractorNames ==
    << Name("file000001.xxx"), Name("file000002.xxx"), Name("file000003.xxx"),
       Name("file000004.xxx"), Name("file000005.xxx"), Name("file000006.xxx"),
       Name("file000007.xxx"), Name("file000008.xxx"), Name("file000009.xxx"),
       Name("file000010.xxx"), Name("file000011.xxx"), Name("file000012.xxx"),
       Name("file000013.xxx"), Name("file000014.xxx"), Name("file000015.xxx"),
       Name("file000016.xxx"), Name("file000017.xxx"), Name("file000018.xxx"),
       Name("file000019.xxx"), Name("file000020.xxx") >>

\* a listfile as a map editor writes it: one distinct logical path per entry
DefaultLines ==
    << Name("war3map.w3e"), Name("war3map.w3i"),
       <<"Sub", "\\", "Dir", "\\", "file.tga">>, Name("war3map.wtg"),
       Name("war3map.wct"), Name("war3map.wts"), Name("war3map.j"),
       Name("war3map.shd"), Name("war3mapMap.blp"), Name("war3map.mmp"),
       Name("war3map.wpm"), Name("war3map.doo"), Name("war3mapUnits.doo"),
       Name("war3map.w3r"), Name("war3map.w3c"), Name("war3map.w3s"),
       Name("war3map.w3u"), Name("war3map.w3t"), Name("war3map.w3a"),
       Name("war3map.w3b") >>

\* lines an archive's listfile may hold instead of the editor's
OtherLines ==
    { Name("war3map.w3e"),                       \* the same path twice
      Name("file000001.xxx"),                    \* an extractor name
      Name("listfile"),                          \* the trailer's name
      Name("Sub"),                               \* a file where a directory goes
      <<"Sub", "\\", "Dir">>,                    \* a directory's own path
      <<"Sub", "\\", "other.tga">>,              \* a second file of a directory
      Name("extra.txt") }                        \* one more distinct path

W3ESignature == <<87, 51, 69, 33>>       \* "W3E!"
TerrainBytes(sig, code) == sig \o <<11, 0, 0, 0>> \o code

DataContent == Content(0, FALSE, <<>>, FALSE, <<0, 255>>)
TextContent(lines, eofnl) == Content(0, TRUE, lines, eofnl, <<>>)

\* the editor's listfile for N entries, M lines long, line p replaced
ListFileLines(M, p, other) ==
    [k \in 1..M |-> IF k = p THEN other ELSE DefaultLines[k]]

ListFileContents(N) ==
    LET Ms == {M \in {N - 1, N, N + 1} : M >= 1 /\ M <= Len(DefaultLines)}
    IN  {TextContent(SubSeq(DefaultLines, 1, M), nl) : M \in Ms, nl \in BOOLEAN}
        \cup {TextContent(ListFileLines(M, p, o), TRUE) :
                  M \in Ms, p \in 1..(N + 1), o \in OtherLines}

\* the other trailer: binary attributes, text without a marker line, a marker
\* on a last line without its newline, or text that is itself a listfile
AttributesContents ==
    { DataContent,
      TextContent(<<Name("readme")>>, TRUE),
      TextContent(<<Name("readme"), Name("war3map.wts")>>, FALSE),
      TextContent(<<Name("war3map.shd"), Name("readme")>>, TRUE) }

\* the terrain file of the archive (entry 1)
TerrainContents ==
    { Content(0, FALSE, <<>>, FALSE, TerrainBytes(W3ESignature, <<65>>)),
      Content(0, FALSE, <<>>, FALSE, TerrainBytes(<<87, 51, 69, 63>>, <<65>>)) }

ExtractorOutput(n, lst, att, swapped, w3e) ==
    [q \in {<<ExtractorNames[k]>> : k \in 1..n} |->
        LET k == CHOOSE j \in 1..n : q = <<ExtractorNames[j]>>
            c == IF n >= 2 /\ k = n - 1 THEN (IF swapped THEN att ELSE lst)
                 ELSE IF n >= 2 /\ k = n THEN (IF swapped THEN lst ELSE att)
                 ELSE IF k = 1 THEN w3e
                 ELSE DataContent
        IN  WithId(c, k)]

ExtractorOutputs ==
    UNION {
        {ExtractorOutput(n, lst, att, sw, CHOOSE t \in TerrainContents :
                                              Read(BytesOf(t), 0, 4) = W3ESignature) :
            lst \in ListFileContents(n - 2), att \in AttributesContents,
            sw \in BOOLEAN}
        \cup {ExtractorOutput(n, TextContent(SubSeq(DefaultLines, 1, n - 2), TRUE),
                              DataContent, FALSE, w3e) : w3e \in TerrainContents}
        : n \in MinFiles..MaxFiles }
    \cup {ExtractorOutput(n, TextContent(SubSeq(DefaultLines, 1, n), TRUE),
                          DataContent, FALSE, DataContent) : n \in 0..(MinFiles - 1)}

(***************************************************************************)
(* extract_map_file(file_name, unpack_dir_name), lines 157-275.            *)
(***************************************************************************)
NoFiles == [q \in {} |-> DataContent]

ErrExtract == "can't extract the map file properly: "
ErrNothing == "external tool didn't extract anything"
ErrTooFew == "external tool didn't extract properly"
ErrNoListFile == "can't find valid listfile inside the map file"

ListFilePath == <<Name("listfile")>>
AttributesPath == <<Name("attributes")>>
CorrectListFilePath == <<Name("correctlistfile")>>

\* lines 159-163: os.mkdir, after shutil.rmtree when the directory exists
MakeWorkDir ==
    /\ pc = "extract"
    /\ dirExists' = TRUE
    /\ files' = NoFiles
    /\ dirs' = {}
    /\ pc' = "mpq_extract"
    /\ UNCHANGED <<given, mapFile, fileExists, headerVars, extracted,
                   extractVars, main_tileset, error, response>>

\* lines 166-184: the external tool runs; a non-zero return code is an error
MpqExtract ==
    /\ pc = "mpq_extract"
    /\ \E out \in ExtractorOutputs, returncode \in {0, 1} :
          /\ returncode # 0 => Cardinality(DOMAIN out) <= 1
          /\ extracted' = Cardinality(DOMAIN out)
          /\ files' = out
          /\ IF returncode # 0
             THEN Raise(ErrExtract)
             ELSE pc' = "list_dir" /\ UNCHANGED error
    /\ UNCHANGED <<given, mapFile, fileExists, headerVars, dirExists, dirs,
                   extractVars, main_tileset, response>>

\* sorted(os.listdir(unpack_dir_name)): the extractor's names present, in order
SortedListing(f) == SelectSeq(ExtractorNames, LAMBDA nm : <<nm>> \in DOMAIN f)

\* the floor of the listing one too low
ListingError_OffByOne(n) ==
    IF n = 0 THEN ErrNothing
    ELSE IF n < MinFiles - 1 THEN ErrTooFew
    ELSE ""

\* lines 191-197: the error for a listing of n entries, "" if none
ListingError(n) ==
    IF n = 0 THEN ErrNothing
    ELSE IF n < MinFiles THEN ErrTooFew
    ELSE ""

\* lines 187-197
ListDir ==
    /\ pc = "list_dir"
    /\ archive_files' = SortedListing(files)
    /\ IF ListingError(Len(archive_files')) # ""
       THEN Raise(ListingError(Len(archive_files')))
       ELSE pc' = "trailers" /\ UNCHANGED error
    /\ UNCHANGED <<given, mapFile, fileExists, headerVars, dirVars, list_file,
                   number_of_files, renames, main_tileset, response>>

\* the swap test without its check of the listfile
SwapNeeded_AttributesOnly(lv, av) == av

\* lines 211-212: the trailers were swapped
SwapNeeded(lv, av) == ~lv /\ av
\* lines 221-222: no trailer is a listfile
NoValidListFile(lv, av) == ~lv /\ ~av

\* lines 215-220: three renames through correctlistfile
SwapTrailers(f, d) ==
    LET f1 == OsRename(f, d, AttributesPath, CorrectListFilePath).files
        f2 == OsRename(f1, d, ListFilePath, AttributesPath).files
    IN  OsRename(f2, d, CorrectListFilePath, ListFilePath).files

\* lines 202-223
ResolveTrailers ==
    /\ pc = "trailers"
    /\ LET n == Len(archive_files)
       IN  IF n < 2
           THEN Raise("IndexError: list index out of range") /\ UNCHANGED files
           ELSE LET f1 == OsRename(files, dirs, <<archive_files[n - 1]>>,
                                   ListFilePath).files
                    f2 == OsRename(f1, dirs, <<archive_files[n]>>,
                                   AttributesPath).files
                    lv == IsValidListFile(f2[ListFilePath])
                    av == IsValidListFile(f2[AttributesPath])
                IN  IF SwapNeeded(lv, av)
                    THEN /\ files' = SwapTrailers(f2, dirs)
                         /\ pc' = "read_listfile"
                         /\ UNCHANGED error
                    ELSE IF NoValidListFile(lv, av)
                    THEN Raise(ErrNoListFile) /\ files' = f2
                    ELSE /\ files' = f2
                         /\ pc' = "read_listfile"
                         /\ UNCHANGED error
    /\ UNCHANGED <<given, mapFile, fileExists, headerVars, dirExists,
                   extracted, dirs, extractVars, main_tileset, response>>

\* lines 227-245: drop the trailers, read the listfile, start the loop
ReadListFile ==
    /\ pc = "read_listfile"
    /\ archive_files' = SubSeq(archive_files, 1, Len(archive_files) - 2)
    /\ list_file' = LinesOf(files[ListFilePath])
    /\ number_of_files' = Len(archive_files') - 1
    /\ renames' = <<>>
    /\ pc' = "rename_loop"
    /\ UNCHANGED <<given, mapFile, fileExists, headerVars, dirVars,
                   main_tileset, error, response>>

\* lines 251-271: one iteration for the 0-based rank r: [files, dirs, err]
RenameEntry(f, d, generic, line) ==
    LET flat == IF line = <<>> THEN <<>> ELSE <<line>>
        r1 == OsRename(f, d, <<generic>>, flat)
        parts == Split(line)
        path == PathOf(Front(parts))
        md == OsMakedirs(r1.files, d, path)
        mv == ShutilMove(r1.files, md.dirs, flat, PathOf(path \o <<Last(parts)>>))
    IN  IF r1.err # "" THEN [files |-> f, dirs |-> d, err |-> r1.err]
        ELSE IF Len(parts) <= 1 THEN [files |-> r1.files, dirs |-> d, err |-> ""]
        ELSE IF md.err # "" THEN [files |-> r1.files, dirs |-> d, err |-> md.err]
        ELSE [files |-> mv.files, dirs |-> md.dirs, err |-> mv.err]

\* lines 247-275: the loop test and one iteration; return True at the end
RenameLoop ==
    /\ pc = "rename_loop"
    /\ IF number_of_files > -1
       THEN IF number_of_files + 1 > Len(list_file)
            THEN /\ Raise("IndexError: list index out of range")
                 /\ UNCHANGED <<files, dirs, number_of_files, renames>>
            ELSE LET r == RenameEntry(files, dirs,
                                      archive_files[number_of_files + 1],
                                      list_file[number_of_files + 1])
                 IN  /\ files' = r.files
                     /\ dirs' = r.dirs
                     /\ IF r.err # ""
                        THEN Raise(r.err) /\ UNCHANGED <<number_of_files, renames>>
                        ELSE /\ number_of_files' = number_of_files - 1
                             /\ renames' = Append(renames, number_of_files)
                             /\ UNCHANGED <<pc, error>>
       ELSE /\ pc' = "tileset"
            /\ UNCHANGED <<files, dirs, number_of_files, renames, error>>
    /\ UNCHANGED <<given, mapFile, fileExists, headerVars, dirExists,
                   extracted, archive_files, list_file, main_tileset, response>>

ExtractNext ==
    MakeWorkDir \/ MpqExtract \/ ListDir \/ ResolveTrailers \/ ReadListFile
        \/ RenameLoop

(***************************************************************************)
(* read_map(), lines 61-117: the tileset of war3map.w3e.                   *)
(***************************************************************************)
ErrW3E == "doesn't contain a valid .w3e file"
W3EPath == <<Name("war3map.w3e")>>

\* lines 69-106: the name of the tileset character c
TilesetName(c) ==
    CASE c = 65 -> <<"Ashenvale">>
      [] c = 66 -> <<"Barrens">>
      [] c = 67 -> <<"Felwood">>
      [] c = 68 -> <<"Dungeon">>
      [] c = 70 -> <<"Lordaeron Fall">>
      [] c = 71 -> <<"Underground">>
      [] c = 76 -> <<"Lordaeron Summer">>
      [] c = 78 -> <<"Northend">>
      [] c = 81 -> <<"Village Fall">>
      [] c = 86 -> <<"Village">>
      [] c = 87 -> <<"Lordaeron Winter">>
      [] c = 88 -> <<"Dalaran">>
      [] c = 89 -> <<"Cityscape">>
      [] c = 90 -> <<"Sunken Ruins">>
      [] c = 73 -> <<"Icecrown">>
      [] c = 74 -> <<"Dalaran Ruins">>
      [] c = 79 -> <<"Outland">>
      [] c = 75 -> <<"Black Citadel">>
      [] OTHER -> <<"Unknown (bug?): ", c>>

\* is_valid_w3e(file_path), lines 278-288: "" when valid, else what goes wrong
W3EError(f, d, p) ==
    IF p \in d THEN "IsADirectoryError"
    ELSE IF p \notin DOMAIN f THEN "FileNotFoundError"
    ELSE LET sig == Utf8Decode(Read(BytesOf(f[p]), 0, 4))
         IN  IF ~sig.ok THEN "UnicodeDecodeError"
             ELSE IF sig.text # W3ESignature THEN ErrW3E
             ELSE ""

\* the tileset byte read one byte early
TilesetChar_OneEarly(bytes) == Last(Read(bytes, 0, 8))

\* lines 64-66: f.read(9)[-1]
TilesetChar(bytes) == Last(Read(bytes, 0, 9))

\* lines 61-117
Tileset ==
    /\ pc = "tileset"
    /\ IF W3EError(files, dirs, W3EPath) # ""
       THEN Raise(W3EError(files, dirs, W3EPath)) /\ UNCHANGED main_tileset
       ELSE /\ main_tileset' = TilesetName(TilesetChar(BytesOf(files[W3EPath])))
            /\ pc' = "return"
            /\ UNCHANGED error
    /\ UNCHANGED <<given, mapFile, fileExists, headerVars, dirVars,
                   extractVars, response>>

TilesetNext == Tileset

(***************************************************************************)
(* route(), lines 310-354.                                                 *)
(***************************************************************************)
FileName == "map.w3x"
\* werkzeug's secure_filename, not part of this repository
SecureFilename(s) == <<"secure_filename", s>>

\* map_error(error_string, file), lines 139-154
MapError(error_string) ==
    [success |-> FALSE, error |-> error_string, map_name |-> Null,
     map_flags |-> Null, max_players |-> Null, tileset |-> Null,
     file_name |-> SecureFilename(FileName)]

\* the cleanup without its shutil.rmtree call
Cleanup_NoRmtree(fe, de) ==
    IF ~fe THEN [file |-> fe, dir |-> de, err |-> "FileNotFoundError"]
    ELSE [file |-> FALSE, dir |-> de, err |-> ""]

\* os.remove(file_name); shutil.rmtree(unpack_dir_name): what is left, and the
\* exception of the first call that fails
Cleanup(fe, de) ==
    IF ~fe THEN [file |-> fe, dir |-> de, err |-> "FileNotFoundError"]
    ELSE IF ~de THEN [file |-> FALSE, dir |-> de, err |-> "FileNotFoundError"]
    ELSE [file |-> FALSE, dir |-> FALSE, err |-> ""]

\* the two cleanup calls, then the return of resp unless a call raised
CleanupAndReturn(resp) ==
    LET c == Cleanup(fileExists, dirExists)
    IN  /\ fileExists' = c.file
        /\ dirExists' = c.dir
        /\ files' = IF c.dir THEN files ELSE NoFiles
        /\ dirs' = IF c.dir THEN dirs ELSE {}
        /\ IF c.err # ""
           THEN /\ pc' = "escaped"
                /\ response' = [exception |-> c.err]
           ELSE /\ pc' = "done"
                /\ response' = resp

\* lines 313-316
RouteSave ==
    /\ pc = "route"
    /\ fileExists' = TRUE
    /\ pc' = "check_empty"
    /\ UNCHANGED <<given, mapFile, headerVars, dirVars, extractVars,
                   main_tileset, error, response>>

\* lines 319-323
RouteCheckEmpty ==
    /\ pc = "check_empty"
    /\ IF Len(mapFile) = 0
       THEN CleanupAndReturn(MapError(<<"empty map file">>))
       ELSE /\ pc' = "check_valid"
            /\ UNCHANGED <<fileExists, dirExists, files, dirs, response>>
    /\ UNCHANGED <<given, mapFile, headerVars, extracted, extractVars,
                   main_tileset, error>>

\* lines 326-330
RouteCheckValid ==
    /\ pc = "check_valid"
    /\ IF ~ValidMap(mapFile)
       THEN CleanupAndReturn(MapError(<<"invalid map file">>))
       ELSE /\ pc' = "read_map"
            /\ UNCHANGED <<fileExists, dirExists, files, dirs, response>>
    /\ UNCHANGED <<given, mapFile, headerVars, extracted, extractVars,
                   main_tileset, error>>

\* lines 335-339: the handler of any exception of read_map
RouteExcept ==
    /\ pc = "except"
    /\ CleanupAndReturn(MapError(<<"can't process map file: ", error>>))
    /\ UNCHANGED <<given, mapFile, headerVars, extracted, extractVars,
                   main_tileset, error>>

\* lines 341-354
RouteReturn ==
    /\ pc = "return"
    /\ CleanupAndReturn([success |-> TRUE, error |-> Null,
                         map_name |-> map_name, map_flags |-> map_flags,
                         max_players |-> max_player_num,
                         tileset |-> main_tileset,
                         file_name |-> SecureFilename(FileName)])
    /\ UNCHANGED <<given, mapFile, headerVars, extracted, extractVars,
                   main_tileset, error>>

RouteNext ==
    RouteSave \/ RouteCheckEmpty \/ RouteCheckValid \/ RouteExcept \/ RouteReturn

(***************************************************************************)
(* Inputs and specifications.                                              *)
(***************************************************************************)
\* characters whose UTF-8 encodings take 1, 2, 3 and 4 bytes
SampleChars == {65, 233, 8364, 128512}
RECURSIVE NamesOfLen(_)
NamesOfLen(n) ==
    IF n = 0 THEN {<<>>}
    ELSE {<<c>> \o s : c \in SampleChars, s \in NamesOfLen(n - 1)}
SampleNames == UNION {NamesOfLen(n) : n \in 0..MaxNameLen}
SampleFlags == {<<0, 0, 0, 1>>, <<128, 2, 0, 255>>}
\* little-endian values with equal and with distinct bytes, within TLC's integers
SamplePlayers == {0, 4, 16909060, 2147483647}

Triples ==
    [name : SampleNames, flags : SampleFlags, max_players : SamplePlayers]

\* the end-to-end scenario of the specification: "TestMap", flags 00 00 00 01, 4
TestMap ==
    [name |-> <<84, 101, 115, 116, 77, 97, 112>>, flags |-> <<0, 0, 0, 1>>,
     max_players |-> 4]

Prefixes8(h) == {SubSeq(h, 1, k) : k \in 0..Len(h)}

\* uploads: nothing, a short or a wrong signature, headers cut in the name
\* and in the flags, a whole header
RouteUploads ==
    LET h == BuildHeader(TestMap)
    IN  {<<>>, SubSeq(h, 1, 3), <<88>> \o Tail(h), <<255>> \o Tail(h),
         SubSeq(h, 1, 8), SubSeq(h, 1, 18), h}

InitLocals ==
    /\ pos = 0
    /\ byte = <<>>
    /\ map_name = <<>>
    /\ map_flags = <<>>
    /\ max_player_num = 0
    /\ i = 0
    /\ archive_files = <<>>
    /\ list_file = <<>>
    /\ number_of_files = 0
    /\ renames = <<>>
    /\ main_tileset = <<>>
    /\ error = ""
    /\ response = [exception |-> ""]

NoWorkDir ==
    /\ dirExists = FALSE
    /\ extracted = 0
    /\ files = NoFiles
    /\ dirs = {}

\* a request arrives at route()
Init ==
    /\ pc = "route"
    /\ given = TestMap
    /\ mapFile \in RouteUploads
    /\ fileExists = FALSE
    /\ NoWorkDir
    /\ InitLocals

Next == RouteNext \/ HeaderNext \/ ExtractNext \/ TilesetNext

Spec == Init /\ [][Next]_vars

\* read_map() opens a container file that passed valid_map: a built header,
\* cut anywhere after the signature
InitHeader ==
    /\ pc = "read_map"
    /\ given \in Triples
    /\ mapFile \in {f \in Prefixes8(BuildHeader(given)) : ValidMap(f)}
    /\ fileExists = TRUE
    /\ NoWorkDir
    /\ InitLocals

SpecHeader == InitHeader /\ [][HeaderNext]_vars

\* extract_map_file() is called; the directory may be left from before
InitExtract ==
    /\ pc = "extract"
    /\ given = TestMap
    /\ mapFile = BuildHeader(TestMap)
    /\ fileExists = TRUE
    /\ dirExists \in BOOLEAN
    /\ extracted = 0
    /\ files = IF dirExists THEN ExtractorOutput(1, DataContent, DataContent,
                                                 FALSE, DataContent)
               ELSE NoFiles
    /\ dirs = {}
    /\ InitLocals

SpecExtract == InitExtract /\ [][ExtractNext]_vars

\* terrain files: a signature, four more bytes, a tileset byte, cut anywhere
KnownCodes == {65, 66, 67, 68, 70, 71, 76, 78, 81, 86, 87, 88, 89, 90, 73, 74, 79, 75}
SampleCodes == KnownCodes \cup {0, 33, 69, 97, 107, 200}
TerrainFiles ==
    UNION {Prefixes8(TerrainBytes(sig, <<c, 66>>)) :
              sig \in {W3ESignature, <<87, 51, 69, 63>>, <<255, 51, 69, 33>>},
              c \in SampleCodes}

\* read_map() reaches the tileset with war3map.w3e in place, or without it
InitTileset ==
    /\ pc = "tileset"
    /\ given = TestMap
    /\ mapFile = BuildHeader(TestMap)
    /\ fileExists = TRUE
    /\ dirExists = TRUE
    /\ extracted = 0
    /\ \/ files = NoFiles
       \/ \E b \in TerrainFiles :
             files = [q \in {W3EPath} |-> Content(1, FALSE, <<>>, FALSE, b)]
    /\ dirs = {}
    /\ InitLocals

SpecTileset == InitTileset /\ [][TilesetNext]_vars

(***************************************************************************)
(* The claims.                                                             *)
(***************************************************************************)
Ended == pc \in {"done", "escaped"}

\* C1: when a request through route() ends, on any exit path, neither the
\* saved container file nor the work directory exists.
C1_NoTempLeftAtEnd == Ended => ~fileExists /\ ~dirExists

\* a request ended with success after the extractor had filled the directory
C1_Witness ==
    /\ pc = "done"
    /\ response.success
    /\ extracted >= MinFiles
    /\ ~fileExists /\ ~dirExists

\* C2: every failure of a request makes route() return the error envelope
\* (success false, an error string, null map fields, file_name present); no
\* failure leaves route() as an exception.
C2_EveryFailureReturnsEnvelope ==
    /\ pc # "escaped"
    /\ (pc = "done" /\ ~response.success) =>
          /\ response.error # <<>>
          /\ response.map_name = Null /\ response.map_flags = Null
          /\ response.max_players = Null /\ response.tileset = Null
          /\ response.file_name = SecureFilename(FileName)

PreLoopErrors == {ErrExtract, ErrNothing, ErrTooFew, ErrNoListFile}
\* the rename loop has been entered
InRenamePhase ==
    \/ pc \in {"rename_loop", "tileset"}
    \/ pc = "except" /\ error \notin PreLoopErrors

\* the rank the extractor gave the entry of this physical name
PhysicalId(name) ==
    CHOOSE j \in 1..Len(ExtractorNames) : ExtractorNames[j] = name

\* the physical entry of 1-based rank k is still under its physical name
InPlace(k) ==
    /\ <<archive_files[k]>> \in DOMAIN files
    /\ IdOf(files[<<archive_files[k]>>]) = PhysicalId(archive_files[k])

\* listfile line k as a path: each backslash a directory level
LogicalPath(line) == Split(line)

\* the physical entry of rank k is at the path of listfile line k
AtLogicalPath(k) ==
    /\ LogicalPath(list_file[k]) \in DOMAIN files
    /\ IdOf(files[LogicalPath(list_file[k])]) = PhysicalId(archive_files[k])

\* C3: with M listfile lines for N > M physical entries reconciliation ends
\* without error, the M lowest ranks renamed, the other N - M left in place.
C3_ShortListFileSucceeds ==
    (InRenamePhase /\ Len(list_file) < Len(archive_files)) =>
        /\ pc # "except"
        /\ pc = "tileset" =>
              /\ \A k \in 1..Len(list_file) : AtLogicalPath(k)
              /\ \A k \in (Len(list_file) + 1)..Len(archive_files) : InPlace(k)

\* the container file ends before the end of the header built from given
Truncated == Len(mapFile) < Len(BuildHeader(given))
\* the name loop passes its test on an empty read at the end of the file:
\* every further read is empty too
Spinning == pc = "name_loop" /\ byte = <<>> /\ pos >= Len(mapFile)

\* C4: on a container file that ends before the name's NUL, the flags or the
\* max-player bytes are read, header decoding stops with a failure: it
\* neither loops forever nor returns a header.
C4_TruncatedHeaderFails == Truncated => (pc # "extract" /\ ~Spinning)

RECURSIVE FlagBits(_)
FlagBits(fl) == IF fl = <<>> THEN <<>> ELSE Bin8(Head(fl)) \o FlagBits(Tail(fl))

\* C5: decoding the header built from (name, flags, max_players) returns that
\* name, the 32 flag bits in file order and that max_players.
C5_HeaderRoundTrip ==
    (mapFile = BuildHeader(given) /\ pc \in {"extract", "except"}) =>
        /\ pc = "extract"
        /\ map_name = given.name
        /\ map_flags = FlagBits(given.flags)
        /\ max_player_num = given.max_players

\* the trailers as extracted: second-to-last and last of the sorted listing
EntryContent(k) == files[CHOOSE q \in DOMAIN files : IdOf(files[q]) = k]
SecondToLast == EntryContent(PhysicalId(archive_files[Len(archive_files) - 1]))
LastEntry == EntryContent(PhysicalId(archive_files[Len(archive_files)]))

C7_TooFewFailsBeforeRename ==
    (/\ pc \notin {"extract", "mpq_extract", "list_dir"}
     /\ error # ErrExtract
     /\ extracted < MinFiles) =>
        /\ pc = "except"
        /\ error \in {ErrNothing, ErrTooFew}
        /\ Cardinality(DOMAIN files) = extracted
        /\ \A q \in DOMAIN files : q = <<ExtractorNames[IdOf(files[q])]>>
        /\ dirs = {}
        /\ ListFilePath \notin DOMAIN files
        /\ AttributesPath \notin DOMAIN files

\* 15 entries were extracted and reconciliation failed
C7_Witness ==
    /\ pc = "except"
    /\ error = ErrTooFew
    /\ Cardinality(DOMAIN files) = MinFiles - 1

\* C8: after a successful reconciliation with as many listfile lines as
\* entries, the content of each entry is at the path of the line of its
\* rank, and no file is left at a flat name holding backslashes.
C8_EntriesAtLogicalPaths ==
    (pc = "tileset" /\ Len(list_file) = Len(archive_files)) =>
        \A k \in 1..Len(list_file) :
            /\ AtLogicalPath(k)
            /\ Len(Split(list_file[k])) > 1 => <<list_file[k]>> \notin DOMAIN files

\* the tileset names of section 4.2
TilesetTable ==
    { <<65, "Ashenvale">>, <<66, "Barrens">>, <<67, "Felwood">>,
      <<68, "Dungeon">>, <<70, "Lordaeron Fall">>, <<71, "Underground">>,
      <<76, "Lordaeron Summer">>, <<78, "Northend">>, <<81, "Village Fall">>,
      <<86, "Village">>, <<87, "Lordaeron Winter">>, <<88, "Dalaran">>,
      <<89, "Cityscape">>, <<90, "Sunken Ruins">>, <<73, "Icecrown">>,
      <<74, "Dalaran Ruins">>, <<79, "Outland">>, <<75, "Black Citadel">> }

\* a terrain file with the signature and a byte at index 8 is in place
TerrainWithCode ==
    /\ W3EPath \in DOMAIN files
    /\ Len(BytesOf(files[W3EPath])) >= 9
    /\ Read(BytesOf(files[W3EPath]), 0, 4) = W3ESignature

\* C9: for a terrain file that begins with W3E!, tileset decoding returns the
\* listed name of the byte at index 8 when it is a known code, and
\* "Unknown (bug?): " followed by the character otherwise; it never fails.
C9_TilesetOfCode ==
    (TerrainWithCode /\ pc # "tileset") =>
        LET c == BytesOf(files[W3EPath])[9]
        IN  /\ pc = "return"
            /\ \A t \in TilesetTable :
                  t[1] = c => (Len(main_tileset) = 1 /\ main_tileset[1] = t[2])
            /\ c \notin {t[1] : t \in TilesetTable} =>
                  /\ Len(main_tileset) = 2
                  /\ main_tileset[1] = "Unknown (bug?): "
                  /\ main_tileset[2] = c

\* a byte that is no known code was decoded
C9_Witness ==
    /\ pc = "return"
    /\ TerrainWithCode
    /\ BytesOf(files[W3EPath])[9] = 107
    /\ Len(main_tileset) = 2

\* C10: the rename loop processes each (entry, line) pair exactly once and no
\* rename or move lands on an occupied path, so the work directory holds as
\* many files after the loop as before it.
C10_RenameLoopKeepsFiles ==
    pc \in {"rename_loop", "tileset"} =>
        /\ Cardinality(DOMAIN files) = extracted
        /\ pc = "tileset" =>
              /\ Len(renames) = Len(archive_files)
              /\ \A r \in 0..(Len(archive_files) - 1) :
                    \E k \in 1..Len(renames) : renames[k] = r

=============================================================================
